---- MODULE Spec2Model ----
(***************************************************************************)
(* Model of the product search (Strategy Pattern) and of the AI            *)
(* recommendation endpoints (Factory Pattern) of the P1/LS backend.        *)
(*                                                                         *)
(* A text is a sequence of one-character strings, so that trimming,        *)
(* lower-casing, substring tests and splitting are computed rather than    *)
(* assumed.  A queryset is a sequence of product records in id order.      *)
(***************************************************************************)
EXTENDS Integers, Sequences, FiniteSets, TLC

VARIABLES
    products,        \* the Search table: a set of product records
    lastSearch,      \* the request and response of the last search handled
    generators,      \* AIGeneratorFactory._generators: key -> class
    lastFactory,     \* the last factory call and its outcome
    instances,       \* number of generator instances created so far
    recomendaciones, \* the Recomendacion table: a sequence of records
    ai               \* the recommendation request being handled

vars == <<products, lastSearch, generators, lastFactory, instances,
          recomendaciones, ai>>

(***************************************************************************)
(* Bounds of the model.                                                    *)
(***************************************************************************)
MaxPrice == 2
MaxRecs == 2
MaxInstances == 3

(***************************************************************************)
(* Python / SQL text primitives.                                           *)
(***************************************************************************)
\* Python None for a text-valued slot, and for a price slot.
NoneStr == "<None>"
NoneP == -1

\* str.lower() on one character.
LowerChar(c) == CASE c = "A" -> "a" [] c = "B" -> "b" [] OTHER -> c

\* str.lower()
Lower(s) == [i \in DOMAIN s |-> LowerChar(s[i])]

\* str.isspace() on one character
IsSpace(c) == c = " "

\* str.isalnum() on one character
IsAlnum(c) == c \in {"a", "b", "c", "A", "B", "1"}

RECURSIVE LStrip(_)
LStrip(s) == IF s # <<>> /\ IsSpace(Head(s)) THEN LStrip(Tail(s)) ELSE s

RECURSIVE RStrip(_)
RStrip(s) ==
    IF s # <<>> /\ IsSpace(s[Len(s)]) THEN RStrip(SubSeq(s, 1, Len(s) - 1)) ELSE s

\* str.strip()
Strip(s) == RStrip(LStrip(s))

\* needle in hay (Python "in" on str; SQL LIKE %needle%)
Contains(hay, needle) ==
    \E i \in 0..(Len(hay) - Len(needle)) :
        SubSeq(hay, i + 1, i + Len(needle)) = needle

\* Django __icontains lookup
IContains(hay, needle) == Contains(Lower(hay), Lower(needle))

\* Django __iexact lookup
IExact(a, b) == Lower(a) = Lower(b)

\* re.split(r'\s+', s) followed by dropping the empty pieces
RECURSIVE SplitWords(_, _)
SplitWords(s, cur) ==
    IF s = <<>> THEN (IF cur = <<>> THEN <<>> ELSE <<cur>>)
    ELSE IF IsSpace(Head(s))
         THEN (IF cur = <<>> THEN <<>> ELSE <<cur>>) \o SplitWords(Tail(s), <<>>)
         ELSE SplitWords(Tail(s), Append(cur, Head(s)))

\* Python truthiness of an optional Decimal / of an optional str
TruthyNum(v) == v # NoneP /\ v # 0
TruthyStr(s) == s # NoneStr /\ s # ""
TruthyText(t) == t # <<>>

(***************************************************************************)
(* The product store.                                                      *)
(***************************************************************************)
Catalog ==
    { [id |-> 1, name |-> <<"A", "b">>,      category |-> <<"a">>,      price |-> 0],
      [id |-> 2, name |-> <<"b">>,           category |-> <<"B", "a">>, price |-> 1],
      [id |-> 3, name |-> <<"a", " ", "b">>, category |-> <<"b">>,      price |-> MaxPrice] }

CatalogIds == {p.id : p \in Catalog}

ProductById(i) == CHOOSE p \in Catalog : p.id = i

\* Search.objects.all(): the rows of the table in id order
RECURSIVE RowsFrom(_, _)
RowsFrom(rows, i) ==
    IF i > Cardinality(Catalog) THEN <<>>
    ELSE (IF ProductById(i) \in rows THEN <<ProductById(i)>> ELSE <<>>)
         \o RowsFrom(rows, i + 1)

AllObjects(rows) == RowsFrom(rows, 1)

Ids(qs) == [i \in DOMAIN qs |-> qs[i].id]

Range(f) == {f[i] : i \in DOMAIN f}

(***************************************************************************)
(* The five search strategies (strategies.py).                             *)
(***************************************************************************)
\* queryset.none()
NoneQS == <<>>

\* ExactMatchStrategy.search
ExactMatchSearch(qs, query) ==
    IF Strip(query) = <<>> THEN NoneQS
    ELSE SelectSeq(qs, LAMBDA p : IExact(p.name, query) \/ IExact(p.category, query))

\* ContainsStrategy.search looking at the name only
ContainsSearchNameOnly(qs, query) ==
    IF Strip(query) = <<>> THEN NoneQS
    ELSE SelectSeq(qs, LAMBDA p : IContains(p.name, query))

\* ContainsStrategy.search
ContainsSearch(qs, query) ==
    IF Strip(query) = <<>> THEN NoneQS
    ELSE SelectSeq(qs, LAMBDA p : IContains(p.name, query) \/ IContains(p.category, query))

\* FuzzySearchStrategy._order_by_relevance.calculate_relevance
RECURSIVE calculate_relevance(_, _)
calculate_relevance(p, words) ==
    IF words = <<>> THEN 0
    ELSE LET word == Head(words)
             name_lower == Lower(p.name)
             category_lower == Lower(p.category)
         IN  (IF Contains(name_lower, word) THEN 3 ELSE 0)
             + (IF Contains(category_lower, word) THEN 2 ELSE 0)
             + (IF word = name_lower THEN 5 ELSE 0)
             + calculate_relevance(p, Tail(words))

\* list.sort(key=..., reverse=True): stable, descending
RECURSIVE InsertByRelevance(_, _, _)
InsertByRelevance(sorted, p, words) ==
    IF sorted = <<>> THEN <<p>>
    ELSE IF calculate_relevance(Head(sorted), words) >= calculate_relevance(p, words)
         THEN <<Head(sorted)>> \o InsertByRelevance(Tail(sorted), p, words)
         ELSE <<p>> \o sorted

RECURSIVE OrderByRelevance(_, _)
OrderByRelevance(qs, words) ==
    IF qs = <<>> THEN <<>>
    ELSE InsertByRelevance(OrderByRelevance(SubSeq(qs, 1, Len(qs) - 1), words),
                           qs[Len(qs)], words)

\* FuzzySearchStrategy.search
FuzzySearch(qs, query) ==
    IF Strip(query) = <<>> THEN NoneQS
    ELSE LET words == SplitWords(Lower(query), <<>>)
         IN  IF words = <<>> THEN NoneQS
             ELSE OrderByRelevance(
                    SelectSeq(qs, LAMBDA p :
                        \E i \in DOMAIN words :
                            IContains(p.name, words[i]) \/ IContains(p.category, words[i])),
                    words)

\* PriceRangeStrategy.search; kw.min_price / kw.max_price are NoneP when the
\* keyword is absent or None.
PriceRangeSearch(qs, kw) ==
    IF kw.min_price # NoneP /\ kw.max_price # NoneP
    THEN SelectSeq(qs, LAMBDA p : p.price >= kw.min_price /\ p.price <= kw.max_price)
    ELSE IF kw.min_price # NoneP
    THEN SelectSeq(qs, LAMBDA p : p.price >= kw.min_price)
    ELSE IF kw.max_price # NoneP
    THEN SelectSeq(qs, LAMBDA p : p.price <= kw.max_price)
    ELSE qs

\* CategoryStrategy.search; kw.category is <<>> when the keyword is absent
\* ("not category" holds of None and of '' alike).
CategorySearch(qs, query, kw) ==
    IF ~TruthyText(kw.category) THEN NoneQS
    ELSE LET results == SelectSeq(qs, LAMBDA p : IContains(p.category, kw.category))
         IN  IF TruthyText(query) /\ Strip(query) # <<>>
             THEN SelectSeq(results, LAMBDA p : IContains(p.name, Strip(query)))
             ELSE results

\* SearchStrategyFactory._strategies / get_available_strategies
AvailableStrategies == {"exact", "contains", "fuzzy", "price_range", "category"}

\* get_strategy_name() of the class registered under a key
StrategyName(key) == IF key = "exact" THEN "exact_match" ELSE key

NoKwargs == [min_price |-> NoneP, max_price |-> NoneP, category |-> <<>>]

\* SearchContext.execute_search with the strategy created for `key`:
\* the result dict restricted to strategy_used and results.
execute_search(key, rows, query, kw) ==
    [strategy_used |-> StrategyName(key),
     results |->
        CASE key = "exact"       -> ExactMatchSearch(AllObjects(rows), query)
          [] key = "contains"    -> ContainsSearch(AllObjects(rows), query)
          [] key = "fuzzy"       -> FuzzySearch(AllObjects(rows), query)
          [] key = "price_range" -> PriceRangeSearch(AllObjects(rows), kw)
          [] key = "category"    -> CategorySearch(AllObjects(rows), query, kw)]

\* SearchContext.__init__: "strategy or ContainsStrategy()"; the strategy is
\* named by its factory key, None is NoneStr
SearchContextStrategy(strategy) == IF strategy = NoneStr THEN "contains" ELSE strategy

\* SearchContext(strategy).execute_search(query, **kwargs) called on its own:
\* req.search_type is the strategy the context is built with, the other
\* fields of req are the query and the keyword arguments, all passed as given
context_search(rows, req) ==
    LET r == execute_search(SearchContextStrategy(req.search_type), rows, req.q,
                            [min_price |-> req.min_price, max_price |-> req.max_price,
                             category |-> req.category])
    IN  [endpoint |-> "SearchContext", status |-> 0, executed |-> TRUE,
         strategy_used |-> r.strategy_used, results |-> Ids(r.results)]

(***************************************************************************)
(* POST /api/products/advanced_search/ (api_views.py, serializers.py).     *)
(***************************************************************************)
\* SearchRequestSerializer field validation: search_type is a ChoiceField,
\* min_price / max_price have min_value=0.
SearchFieldsValid(req) ==
    /\ req.search_type \in AvailableStrategies \cup {NoneStr}
    /\ req.min_price # NoneP => req.min_price >= 0
    /\ req.max_price # NoneP => req.max_price >= 0

\* SearchRequestSerializer.validate
SearchCrossValid(data) ==
    ~(TruthyNum(data.min_price) /\ TruthyNum(data.max_price)
      /\ data.min_price > data.max_price)

SearchRequestValid(req) == SearchFieldsValid(req) /\ SearchCrossValid(req)

\* validated_data as read by the view: CharFields are trimmed, the defaults
\* of .get() are applied.
SearchValidated(req) ==
    [q |-> Strip(req.q),
     category |-> Strip(req.category),
     search_type |-> IF req.search_type = NoneStr THEN "contains" ELSE req.search_type,
     min_price |-> req.min_price,
     max_price |-> req.max_price]

\* SelectStrategy falling back to the exact strategy for an unknown search_type
SelectStrategyFallbackExact(priceGiven, category, search_type) ==
    IF priceGiven THEN "price_range"
    ELSE IF TruthyText(category) THEN "category"
    ELSE IF search_type \notin AvailableStrategies THEN "exact"
    ELSE search_type

\* Selection of the strategy key, shared shape of both views:
\* "if min_price or max_price ... elif category ... else search_type".
SelectStrategy(priceGiven, category, search_type) ==
    IF priceGiven THEN "price_range"
    ELSE IF TruthyText(category) THEN "category"
    ELSE IF search_type \notin AvailableStrategies THEN "contains"
    ELSE search_type

\* ProductViewSet.advanced_search
advanced_search(rows, req) ==
    IF ~SearchRequestValid(req)
    THEN [endpoint |-> "advanced_search", status |-> 400, executed |-> FALSE,
          strategy_used |-> "none", results |-> <<>>]
    ELSE
      LET v == SearchValidated(req)
          key == SelectStrategy(TruthyNum(v.min_price) \/ TruthyNum(v.max_price),
                                v.category, v.search_type)
          kw == CASE key = "price_range" ->
                       [min_price |-> IF TruthyNum(v.min_price) THEN v.min_price ELSE NoneP,
                        max_price |-> IF TruthyNum(v.max_price) THEN v.max_price ELSE NoneP,
                        category |-> <<>>]
                  [] key = "category" -> [NoKwargs EXCEPT !.category = v.category]
                  [] OTHER -> NoKwargs
          r == execute_search(key, rows, v.q, kw)
          results == IF key = "price_range" /\ TruthyText(v.q)
                     THEN SelectSeq(r.results, LAMBDA p : IContains(p.name, v.q))
                     ELSE r.results
      IN  [endpoint |-> "advanced_search", status |-> 200, executed |-> TRUE,
           strategy_used |-> r.strategy_used, results |-> Ids(results)]

(***************************************************************************)
(* GET search_products (views.py).                                         *)
(***************************************************************************)
\* The numeric strings the model sends, and float() of them; float() of any
\* other string raises ValueError.
NumStr == [n \in 0..MaxPrice |-> ToString(n)]
IsNumStr(s) == \E n \in 0..MaxPrice : NumStr[n] = s
FloatOf(s) == CHOOSE n \in 0..MaxPrice : NumStr[n] = s

\* kwargs['min_price'] = float(min_price), or None on ValueError; absent when
\* the parameter is falsy.
PriceKwarg(s) == IF TruthyStr(s) /\ IsNumStr(s) THEN FloatOf(s) ELSE NoneP

\* search_products
search_products(rows, req) ==
    LET query == Strip(req.q)
        category == Strip(req.category)
        search_type == IF req.search_type = NoneStr THEN "contains" ELSE req.search_type
        key == SelectStrategy(TruthyStr(req.min_price) \/ TruthyStr(req.max_price),
                              category, search_type)
        kw == CASE key = "price_range" ->
                     [min_price |-> PriceKwarg(req.min_price),
                      max_price |-> PriceKwarg(req.max_price),
                      category |-> <<>>]
                [] key = "category" -> [NoKwargs EXCEPT !.category = category]
                [] OTHER -> NoKwargs
        r == execute_search(key, rows, query, kw)
        results == IF key = "price_range" /\ TruthyText(query)
                   THEN SelectSeq(r.results, LAMBDA p : IContains(p.name, query))
                   ELSE r.results
    IN  [endpoint |-> "search_products", status |-> 200, executed |-> TRUE,
         strategy_used |-> r.strategy_used, results |-> Ids(results)]

\* Inputs of the search endpoints.
QueryTexts == {<<>>, <<"B">>, <<" ">>, <<"a", " ", "b">>}
CategoryTexts == {<<>>, <<"A">>, <<" ">>}
SearchTypes == AvailableStrategies \cup {NoneStr, "bogus"}
ApiPrices == {NoneP} \cup (0..MaxPrice)
GetPrices == {NoneStr, "", "abc"} \cup {NumStr[n] : n \in 0..MaxPrice}

ApiSearchRequests ==
    [q : QueryTexts, category : CategoryTexts, search_type : SearchTypes,
     min_price : ApiPrices \cup {-2}, max_price : ApiPrices]

GetSearchRequests ==
    [q : QueryTexts, category : CategoryTexts, search_type : SearchTypes,
     min_price : GetPrices, max_price : GetPrices]

\* Calls of SearchContext on its own: the query is not trimmed by anyone
ContextQueries == QueryTexts \cup {<<" ", "B">>, <<"B", "a">>, <<"a", " ", "b", "a">>}

ContextRequests ==
    [q : ContextQueries, category : {<<>>, <<"A">>},
     search_type : AvailableStrategies \cup {NoneStr},
     min_price : {NoneP, 1}, max_price : {NoneP}]

NoSearch == [endpoint |-> "none"]

(***************************************************************************)
(* Generated texts.  A generated text is a sequence of atoms: single       *)
(* characters and the few multi-character pieces the code looks for        *)
(* ("Asistente:", "No encontre" for the accented original, the forbidden   *)
(* words), each kept whole.                                                *)
(***************************************************************************)
\* Python None for a text-valued slot of a result or response
NoneText == <<NoneStr>>

\* the first index of atom c in t, or 0
RECURSIVE IndexOf(_, _, _)
IndexOf(t, c, i) ==
    IF i > Len(t) THEN 0 ELSE IF t[i] = c THEN i ELSE IndexOf(t, c, i + 1)

\* t.split(sep): the pieces of t between the occurrences of atom sep
RECURSIVE Split(_, _)
Split(t, sep) ==
    LET i == IndexOf(t, sep, 1)
    IN  IF i = 0 THEN <<t>>
        ELSE <<SubSeq(t, 1, i - 1)>> \o Split(SubSeq(t, i + 1, Len(t)), sep)

\* t.strip('"')
RECURSIVE StripQuotes(_)
StripQuotes(t) ==
    IF t # <<>> /\ Head(t) = "\"" THEN StripQuotes(Tail(t))
    ELSE IF t # <<>> /\ t[Len(t)] = "\"" THEN StripQuotes(SubSeq(t, 1, Len(t) - 1))
    ELSE t

\* str.lower() on a generated text
LowerAtom(c) == CASE c = "WEAPON" -> "weapon" [] OTHER -> LowerChar(c)
LowerText(t) == [i \in DOMAIN t |-> LowerAtom(t[i])]

\* base64.b64encode(content).decode('utf-8') on a sequence of bytes
B64Alphabet ==
    <<"A","B","C","D","E","F","G","H","I","J","K","L","M","N","O","P",
      "Q","R","S","T","U","V","W","X","Y","Z","a","b","c","d","e","f",
      "g","h","i","j","k","l","m","n","o","p","q","r","s","t","u","v",
      "w","x","y","z","0","1","2","3","4","5","6","7","8","9","+","/">>

B64Char(n) == B64Alphabet[n + 1]

RECURSIVE b64encode(_)
b64encode(bytes) ==
    IF bytes = <<>> THEN <<>>
    ELSE IF Len(bytes) = 1 THEN
        <<B64Char(bytes[1] \div 4), B64Char((bytes[1] % 4) * 16), "=", "=">>
    ELSE IF Len(bytes) = 2 THEN
        <<B64Char(bytes[1] \div 4),
          B64Char((bytes[1] % 4) * 16 + bytes[2] \div 16),
          B64Char((bytes[2] % 16) * 4), "=">>
    ELSE
        <<B64Char(bytes[1] \div 4),
          B64Char((bytes[1] % 4) * 16 + bytes[2] \div 16),
          B64Char((bytes[2] % 16) * 4 + bytes[3] \div 64),
          B64Char(bytes[3] % 64)>> \o b64encode(SubSeq(bytes, 4, Len(bytes)))

(***************************************************************************)
(* The AI generators (factories.py).                                       *)
(***************************************************************************)
\* The result dict of a generator; its keys are the record's fields.
Result(success, content, error) ==
    [success |-> success, content |-> content, error |-> error]

NoResult == [success |-> FALSE, content |-> NoneText, error |-> <<"<no result>">>]

\* TextGenerator.validate_input measuring the prompt as given, untrimmed
TextValidateInputUntrimmed(prompt) == Len(prompt) >= 3

\* TextGenerator.validate_input
TextValidateInput(prompt) == Len(Strip(prompt)) >= 3

\* The result TextGenerator.generate returns before any HTTP call
TextInvalidResult ==
    Result(FALSE, NoneText, <<"El prompt debe tener al menos 3 caracteres">>)

\* TextGenerator.generate from the outcome of requests.post on:
\* the try block and its except clause.
TextOnOutcome(o) ==
    IF o.kind = "exception"
    THEN Result(FALSE, <<"El servicio de recomendaciones no esta disponible temporalmente.">>,
                o.msg)
    ELSE IF o.status = 200 /\ o.body.json = "malformed"
    THEN \* response.json() raises
         Result(FALSE, <<"El servicio de recomendaciones no esta disponible temporalmente.">>,
                <<"Expecting value">>)
    ELSE IF o.status = 200 /\ o.body.json = "list" /\ o.body.items # <<>>
    THEN IF ~o.body.items[1].isdict
         THEN \* resultado[0].get raises AttributeError
              Result(FALSE, <<"El servicio de recomendaciones no esta disponible temporalmente.">>,
                     <<"object has no attribute 'get'">>)
         ELSE LET texto == o.body.items[1].generated_text
                  content == IF IndexOf(texto, "Asistente:", 1) # 0
                             THEN StripQuotes(Strip(Split(texto, "Asistente:")[2]))
                             ELSE StripQuotes(Strip(texto))
              IN  Result(TRUE, content, NoneText)
    ELSE Result(FALSE,
                <<"No encontre", " productos. Por favor describe mejor lo que necesitas.">>,
                <<"Error de API: ", ToString(o.status)>>)

\* ImageGenerator.validate_input looking for the words in the prompt as
\* given, not in prompt.lower()
ImageValidateInputCaseSensitive(prompt) ==
    /\ Strip(prompt) # <<>>
    /\ ~\E w \in {"violence", "weapon", "drug"} : IndexOf(prompt, w, 1) # 0

\* ImageGenerator.validate_input
ImageValidateInput(prompt) ==
    /\ Strip(prompt) # <<>>
    /\ ~\E w \in {"violence", "weapon", "drug"} : IndexOf(LowerText(prompt), w, 1) # 0

\* The result ImageGenerator.generate returns before any HTTP call
ImageInvalidResult ==
    Result(FALSE, NoneText, <<"Prompt invalido o contiene contenido inapropiado">>)

\* ImageOnOutcome without the test of the status code
ImageOnOutcomeAnyStatus(o) ==
    IF o.kind = "exception" THEN Result(FALSE, NoneText, o.msg)
    ELSE Result(TRUE, b64encode(o.content), NoneText)

\* ImageGenerator.generate from the outcome of requests.post on
ImageOnOutcome(o) ==
    IF o.kind = "exception" THEN Result(FALSE, NoneText, o.msg)
    ELSE IF o.status = 200 THEN Result(TRUE, b64encode(o.content), NoneText)
    ELSE Result(FALSE, NoneText,
                <<"Error de API: ", ToString(o.status), " - ">> \o o.text)

\* Outcomes of the outbound HTTP calls.
GeneratedTexts ==
    { <<"Usuario:", " ", "Asistente:", " ", "\"", "Cuaderno", ":", " ", "hojas", "\"">>,
      <<"Cuaderno", ":", " ", "hojas">>,
      <<"Asistente:", " ", "No encontre", " ", "hojas">>,
      <<"Asistente:", " ", "WEAPON", ":", " ", "hojas">>,
      <<"Asistente:", " ">> }

JsonList(items) == [json |-> "list", items |-> items]
DictItem(t) == [isdict |-> TRUE, generated_text |-> t]
IntItem == [isdict |-> FALSE, generated_text |-> <<>>]

TextBodies ==
    {JsonList(<<DictItem(t)>>) : t \in GeneratedTexts}
    \cup { JsonList(<<>>), JsonList(<<IntItem>>),
           [json |-> "dict", items |-> <<>>], [json |-> "malformed", items |-> <<>>] }

ExceptionMessages == {<<>>, <<"Read timed out.">>}

TextOutcomes ==
    {[kind |-> "response", status |-> 200, body |-> b, msg |-> <<>>] : b \in TextBodies}
    \cup {[kind |-> "response", status |-> 503, body |-> [json |-> "dict", items |-> <<>>],
           msg |-> <<>>]}
    \cup {[kind |-> "exception", status |-> 0, body |-> [json |-> "malformed", items |-> <<>>],
           msg |-> m] : m \in ExceptionMessages}

ImageContents == {<<>>, <<77>>, <<77, 97, 110>>}

ImageOutcomes ==
    {[kind |-> "response", status |-> 200, content |-> c, text |-> <<>>, msg |-> <<>>] :
        c \in ImageContents}
    \cup {[kind |-> "response", status |-> 503, content |-> <<>>, text |-> t, msg |-> <<>>] :
        t \in {<<>>, <<"loading">>}}
    \cup {[kind |-> "exception", status |-> 0, content |-> <<>>, text |-> <<>>, msg |-> m] :
        m \in ExceptionMessages}

(***************************************************************************)
(* AIGeneratorFactory (factories.py).  A class is named by a string:       *)
(* the two generators of the module, AudioGenerator for a concrete         *)
(* subclass of AIGenerator defined by a caller, the abstract base          *)
(* AIGenerator itself, and dict for a class outside the hierarchy.         *)
(***************************************************************************)
Classes == {"TextGenerator", "ImageGenerator", "AudioGenerator", "AIGenerator", "dict"}

\* issubclass(cls, AIGenerator)
IsAIGeneratorSubclass(cls) ==
    cls \in {"TextGenerator", "ImageGenerator", "AudioGenerator", "AIGenerator"}

\* A class with an @abstractmethod left unimplemented: calling it raises TypeError.
IsAbstract(cls) == cls = "AIGenerator"

\* AIGeneratorFactory._generators as the class is defined
InitialGenerators == ("text" :> "TextGenerator") @@ ("image" :> "ImageGenerator")

GeneratorKeys == {"text", "image", "audio", "video"}

\* create_generator falling back to the text generator for an unknown key
create_generator_fallback(registry, generator_type) ==
    IF generator_type \notin DOMAIN registry
    THEN [outcome |-> "ok", cls |-> registry["text"]]
    ELSE IF IsAbstract(registry[generator_type])
    THEN [outcome |-> "TypeError", cls |-> NoneStr]
    ELSE [outcome |-> "ok", cls |-> registry[generator_type]]

\* AIGeneratorFactory.create_generator: the exception raised, or the class
\* of the instance returned
create_generator(registry, generator_type) ==
    IF generator_type \notin DOMAIN registry
    THEN [outcome |-> "ValueError", cls |-> NoneStr]
    ELSE IF IsAbstract(registry[generator_type])
    THEN [outcome |-> "TypeError", cls |-> NoneStr]
    ELSE [outcome |-> "ok", cls |-> registry[generator_type]]

\* register_generator rebuilding the registry from the module's own entries
register_generator_rebuild(registry, generator_type, generator_class) ==
    IF ~IsAIGeneratorSubclass(generator_class)
    THEN [outcome |-> "ValueError", registry |-> registry]
    ELSE [outcome |-> "ok",
          registry |-> [k \in DOMAIN InitialGenerators \cup {generator_type} |->
                           IF k = generator_type THEN generator_class
                           ELSE InitialGenerators[k]]]

\* AIGeneratorFactory.register_generator: the exception raised if any, and
\* the registry it leaves
register_generator(registry, generator_type, generator_class) ==
    IF ~IsAIGeneratorSubclass(generator_class)
    THEN [outcome |-> "ValueError", registry |-> registry]
    ELSE [outcome |-> "ok",
          registry |-> [k \in DOMAIN registry \cup {generator_type} |->
                           IF k = generator_type THEN generator_class ELSE registry[k]]]

\* AIGeneratorFactory.get_available_types
get_available_types(registry) == DOMAIN registry

NoFactoryCall ==
    [op |-> "none", key |-> NoneStr, cls |-> NoneStr, outcome |-> "none",
     instance |-> [cls |-> NoneStr, id |-> 0], before |-> InitialGenerators]

(***************************************************************************)
(* The recommendation endpoints: POST /api/recommendations/generate/       *)
(* (api_views.py) and chat_ia (chat_recomendaciones/views.py).             *)
(***************************************************************************)
DescMinLength == 3
DescMaxLength == 1000

\* A field absent from the request body
MissingText == <<"<missing>">>

\* DescripcionValid without the test of validate_descripcion for a letter or digit
DescripcionValidAnyChars(d) ==
    /\ d # MissingText
    /\ Strip(d) # <<>>
    /\ Len(Strip(d)) <= DescMaxLength
    /\ Len(Strip(d)) >= DescMinLength

\* AIGenerationRequestSerializer: the descripcion CharField (required,
\* trimmed, not blank, min_length, max_length) and validate_descripcion
DescripcionValid(d) ==
    /\ d # MissingText
    /\ LET value == Strip(d)
       IN  /\ value # <<>>
           /\ Len(value) <= DescMaxLength
           /\ Len(value) >= DescMinLength
           /\ \E i \in DOMAIN value : IsAlnum(value[i])

\* AIGenerationRequestSerializer.is_valid; temperature is in tenths
GenerateRequestValid(req) ==
    /\ DescripcionValid(req.descripcion)
    /\ req.temperature # NoneP => (req.temperature >= 1 /\ req.temperature <= 20)
    /\ req.max_tokens # NoneP => (req.max_tokens >= 10 /\ req.max_tokens <= 200)

NoResponse ==
    [status |-> 0, status_field |-> "none", producto |-> NoneText, imagen |-> NoneText]

ErrorResponse(code) ==
    [status |-> code, status_field |-> "error", producto |-> NoneText, imagen |-> NoneText]

\* The except clauses of both handlers: ValueError answers 400, any other
\* exception 500
FactoryErrorResponse(outcome) ==
    ErrorResponse(IF outcome = "ValueError" THEN 400 ELSE 500)

NoRequest ==
    [json_ok |-> TRUE, descripcion |-> MissingText, temperature |-> NoneP,
     max_tokens |-> NoneP, generate_image |-> TRUE]

\* What an outbound call came back with: a response (its status) or an
\* exception (its message)
NoHttp == [kind |-> "none", status |-> 0, msg |-> <<>>]
Http(o) == [kind |-> o.kind, status |-> o.status, msg |-> o.msg]

IdleHandler ==
    [endpoint |-> "none", pc |-> "idle", req |-> NoRequest, descripcion |-> NoneText,
     log |-> <<>>, text_result |-> NoResult, image_result |-> NoResult,
     text_http |-> NoHttp, image_http |-> NoHttp,
     response |-> NoResponse, saved |-> <<>>, created |-> <<>>]

\* Python truthiness of imagen_b64 (None or a str)
TruthyB64(t) == t # NoneText /\ t # <<>>

\* NewRecomendacion storing the bare base64 text, without the data-URL prefix
NewRecomendacionBare(descripcion, producto_recomendado, imagen_b64) ==
    [descripcion |-> descripcion,
     producto_recomendado |-> producto_recomendado,
     imagen_url |-> IF TruthyB64(imagen_b64) THEN imagen_b64 ELSE <<>>]

\* Recomendacion.objects.create(...) of generate
NewRecomendacion(descripcion, producto_recomendado, imagen_b64) ==
    [descripcion |-> descripcion,
     producto_recomendado |-> producto_recomendado,
     imagen_url |-> IF TruthyB64(imagen_b64)
                    THEN <<"data:image/png;base64,">> \o imagen_b64 ELSE <<>>]

\* The end of both handlers, once the image step is over: generate saves
\* the record (the save may fail, which is caught and printed) and both
\* answer success.
Finish(a, table, dbOk) ==
    LET imagen_b64 == IF a.image_result.success THEN a.image_result.content ELSE NoneText
        producto == a.text_result.content
        rec == NewRecomendacion(a.descripcion, producto, imagen_b64)
        saves == a.endpoint = "generate" /\ dbOk
    IN  [ai |-> [a EXCEPT !.pc = "done",
                          !.log = Append(a.log, "response"),
                          !.saved = IF saves THEN <<rec>> ELSE <<>>,
                          !.response = [status |-> 200, status_field |-> "success",
                                        producto |-> producto, imagen |-> imagen_b64]],
         table |-> IF saves THEN Append(table, rec) ELSE table]

\* Whether the handler asks for an image of a generated text
WantsImage(a) ==
    /\ a.endpoint = "generate" => a.req.generate_image
    /\ TruthyText(a.text_result.content)
    /\ IndexOf(a.text_result.content, "No encontre", 1) = 0

\* producto_recomendado.split(":")[0].strip()
ProductoNombre(producto) == Strip(Split(producto, ":")[1])

\* AfterText calling the text generator once more when it has failed
AfterTextRetry(a, table, dbOk) ==
    IF ~a.text_result.success /\ Len(a.log) <= 2
    THEN [ai |-> [a EXCEPT !.pc = "text_call", !.log = Append(a.log, "text_call")],
          table |-> table]
    ELSE IF ~a.text_result.success
    THEN [ai |-> [a EXCEPT !.pc = "done", !.log = Append(a.log, "response"),
                           !.response = ErrorResponse(500)],
          table |-> table]
    ELSE IF WantsImage(a) /\ ImageValidateInput(ProductoNombre(a.text_result.content))
    THEN [ai |-> [a EXCEPT !.pc = "image_call", !.log = Append(a.log, "image_call")],
          table |-> table]
    ELSE Finish(a, table, dbOk)

\* AfterText without the test of text_result['success']: a failed text
\* result is treated like a generated one
AfterTextLenient(a, table, dbOk) ==
    IF WantsImage(a) /\ ImageValidateInput(ProductoNombre(a.text_result.content))
    THEN [ai |-> [a EXCEPT !.pc = "image_call", !.log = Append(a.log, "image_call")],
          table |-> table]
    ELSE Finish(a, table, dbOk)

\* Both handlers from the text result on, up to the image call or the response
AfterText(a, table, dbOk) ==
    IF ~a.text_result.success
    THEN [ai |-> [a EXCEPT !.pc = "done", !.log = Append(a.log, "response"),
                           !.response = ErrorResponse(500)],
          table |-> table]
    ELSE IF WantsImage(a)
    THEN IF create_generator(generators, "image").outcome # "ok"
         THEN [ai |-> [a EXCEPT !.pc = "done", !.log = Append(a.log, "response"),
                                !.response = FactoryErrorResponse(
                                    create_generator(generators, "image").outcome)],
               table |-> table]
         ELSE IF ImageValidateInput(ProductoNombre(a.text_result.content))
         THEN [ai |-> [a EXCEPT !.pc = "image_call", !.log = Append(a.log, "image_call"),
                                !.created = Append(a.created, "ImageGenerator")],
               table |-> table]
         ELSE Finish([a EXCEPT !.image_result = ImageInvalidResult,
                               !.created = Append(a.created, "ImageGenerator")],
                     table, dbOk)
    ELSE Finish(a, table, dbOk)

\* Both handlers from the validated description on, up to the text call
\* (TextGenerator.generate validates its prompt before calling out)
CallText(a, table, dbOk) ==
    IF create_generator(generators, "text").outcome # "ok"
    THEN [ai |-> [a EXCEPT !.pc = "done", !.log = Append(a.log, "response"),
                           !.response = FactoryErrorResponse(
                               create_generator(generators, "text").outcome)],
          table |-> table]
    ELSE IF TextValidateInput(a.descripcion)
    THEN [ai |-> [a EXCEPT !.pc = "text_call", !.log = Append(a.log, "text_call"),
                           !.created = <<"TextGenerator">>],
          table |-> table]
    ELSE AfterText([a EXCEPT !.text_result = TextInvalidResult,
                             !.created = <<"TextGenerator">>], table, dbOk)

\* AIRecommendationViewSet.generate up to its first outbound call
generate(req, table, dbOk) ==
    LET a == [IdleHandler EXCEPT !.endpoint = "generate", !.req = req]
    IN  IF ~GenerateRequestValid(req)
        THEN [ai |-> [a EXCEPT !.pc = "done", !.log = <<"response">>,
                               !.response = ErrorResponse(400)],
              table |-> table]
        ELSE CallText([a EXCEPT !.descripcion = Strip(req.descripcion)], table, dbOk)

\* chat_ia up to its first outbound call
chat_ia(req, table, dbOk) ==
    LET a == [IdleHandler EXCEPT !.endpoint = "chat_ia", !.req = req]
        descripcion == IF req.descripcion = MissingText THEN <<>> ELSE Strip(req.descripcion)
    IN  IF ~req.json_ok \/ Len(descripcion) < 3
        THEN [ai |-> [a EXCEPT !.pc = "done", !.log = <<"response">>,
                               !.response = ErrorResponse(400)],
              table |-> table]
        ELSE CallText([a EXCEPT !.descripcion = descripcion], table, dbOk)

\* The text call returns (or raises): TextGenerator.generate ends, the
\* handler goes on
text_return(a, o, table, dbOk) ==
    AfterText([a EXCEPT !.text_result = TextOnOutcome(o),
                        !.text_http = Http(o),
                        !.log = Append(a.log, "text_return")], table, dbOk)

\* The image call returns (or raises): ImageGenerator.generate ends, the
\* handler goes on
image_return(a, o, table, dbOk) ==
    Finish([a EXCEPT !.image_result = ImageOnOutcome(o),
                     !.image_http = Http(o),
                     !.log = Append(a.log, "image_return")], table, dbOk)

\* A text of n times the character c
Repeat(c, n) == [i \in 1..n |-> c]

\* Inputs of the recommendation endpoints.
Descripciones ==
    { MissingText, <<"a", "b", "c">>, <<" ", "a", "b", "c", " ">>, <<"a", "b", " ">>,
      <<"!", "!", "!">>, <<" ", " ", " ">> }

\* Descriptions one character longer than the greatest length allowed, the
\* second of them only by the blanks that end it.
LongDescripciones ==
    { Repeat("a", DescMaxLength + 1),
      Repeat("a", DescMaxLength - 1) \o <<" ", " ">> }

GenerateRequests ==
    [json_ok : {TRUE}, descripcion : Descripciones, temperature : {NoneP, 0, 20, 21},
     max_tokens : {NoneP, 9, 10, 201}, generate_image : BOOLEAN]
    \cup [json_ok : {TRUE}, descripcion : LongDescripciones, temperature : {NoneP},
          max_tokens : {NoneP}, generate_image : {FALSE}]

ChatRequests ==
    [json_ok : BOOLEAN, descripcion : Descripciones, temperature : {NoneP},
     max_tokens : {NoneP}, generate_image : {TRUE}]

(***************************************************************************)
(* A generator called on its own: generate(prompt) on the instance the     *)
(* factory has just returned.  The call in progress is held in `ai`, with  *)
(* the name of the method as endpoint and the prompt as descripcion.       *)
(***************************************************************************)
\* TextGenerator.generate up to requests.post
text_generate(prompt) ==
    LET a == [IdleHandler EXCEPT !.endpoint = "TextGenerator.generate",
                                 !.descripcion = prompt]
    IN  IF ~TextValidateInput(prompt)
        THEN [a EXCEPT !.pc = "done", !.text_result = TextInvalidResult]
        ELSE [a EXCEPT !.pc = "text_call", !.log = <<"text_call">>]

\* TextGenerator.generate from requests.post on
text_post_return(a, o) ==
    [a EXCEPT !.pc = "done", !.text_result = TextOnOutcome(o), !.text_http = Http(o),
              !.log = Append(a.log, "text_return")]

\* ImageGenerator.generate up to requests.post
image_generate(prompt) ==
    LET a == [IdleHandler EXCEPT !.endpoint = "ImageGenerator.generate",
                                 !.descripcion = prompt]
    IN  IF ~ImageValidateInput(prompt)
        THEN [a EXCEPT !.pc = "done", !.image_result = ImageInvalidResult]
        ELSE [a EXCEPT !.pc = "image_call", !.log = <<"image_call">>]

\* ImageGenerator.generate from requests.post on
image_post_return(a, o) ==
    [a EXCEPT !.pc = "done", !.image_result = ImageOnOutcome(o), !.image_http = Http(o),
              !.log = Append(a.log, "image_return")]

\* Prompts given to the generators: character texts for the text generator,
\* generated texts (atoms) for the image generator.
TextPrompts ==
    { <<>>, <<"a", "b">>, <<" ", "a", "b", " ">>, <<" ", " ", " ", " ">>,
      <<"a", "b", "c">>, <<" ", "a", " ", "b", " ">>, <<"!", "!", "!">>,
      <<" ", "a", "b", "c", "1", " ">> }

ImagePrompts ==
    { <<>>, <<" ", " ">>, <<"Cuaderno">>, <<" ", "Cuaderno", " ">>, <<"hojas">>,
      <<"WEAPON">>, <<"a", " ", "weapon", "s">>, <<"drug", "store">>,
      <<"Cuaderno", " ", "violence">> }

(***************************************************************************)
(* The state machine.                                                      *)
(***************************************************************************)
Init ==
    /\ products = {}
    /\ lastSearch = [req |-> NoSearch, resp |-> NoSearch]
    /\ generators = InitialGenerators
    /\ lastFactory = NoFactoryCall
    /\ instances = 0
    /\ recomendaciones = <<>>
    /\ ai = IdleHandler

searchVars == <<products, lastSearch>>
factoryVars == <<generators, lastFactory, instances>>
aiVars == <<recomendaciones, ai>>

\* ProductViewSet create / destroy (ModelViewSet CRUD on the Search table)
CreateProduct(p) ==
    /\ lastSearch.resp = NoSearch
    /\ p \notin products
    /\ products' = products \cup {p}
    /\ UNCHANGED <<lastSearch, factoryVars, aiVars>>

DestroyProduct(p) ==
    /\ lastSearch.resp = NoSearch
    /\ p \in products
    /\ products' = products \ {p}
    /\ UNCHANGED <<lastSearch, factoryVars, aiVars>>

AdvancedSearch(req) ==
    /\ lastSearch.resp = NoSearch
    /\ lastSearch' = [req |-> req, resp |-> advanced_search(products, req)]
    /\ UNCHANGED <<products, factoryVars, aiVars>>

SearchProducts(req) ==
    /\ lastSearch.resp = NoSearch
    /\ lastSearch' = [req |-> req, resp |-> search_products(products, req)]
    /\ UNCHANGED <<products, factoryVars, aiVars>>

ContextSearch(req) ==
    /\ lastSearch.resp = NoSearch
    /\ lastSearch' = [req |-> req, resp |-> context_search(products, req)]
    /\ UNCHANGED <<products, factoryVars, aiVars>>

\* The response of the search is returned to the client; the view keeps nothing.
SearchDone ==
    /\ lastSearch.resp # NoSearch
    /\ lastSearch' = [req |-> NoSearch, resp |-> NoSearch]
    /\ UNCHANGED <<products, factoryVars, aiVars>>

CreateGenerator(key) ==
    /\ instances < MaxInstances
    /\ LET r == create_generator(generators, key)
       IN  /\ instances' = IF r.outcome = "ok" THEN instances + 1 ELSE instances
           /\ lastFactory' = [op |-> "create", key |-> key, cls |-> NoneStr,
                              outcome |-> r.outcome,
                              instance |-> [cls |-> r.cls,
                                            id |-> IF r.outcome = "ok"
                                                   THEN instances + 1 ELSE 0],
                              before |-> generators]
    /\ UNCHANGED <<generators, searchVars, aiVars>>

RegisterGenerator(key, cls) ==
    /\ LET r == register_generator(generators, key, cls)
       IN  /\ generators' = r.registry
           /\ lastFactory' = [op |-> "register", key |-> key, cls |-> cls,
                              outcome |-> r.outcome,
                              instance |-> [cls |-> NoneStr, id |-> 0],
                              before |-> generators]
    /\ UNCHANGED <<instances, searchVars, aiVars>>

Generate(req) ==
    /\ ai.pc = "idle"
    /\ Len(recomendaciones) < MaxRecs
    /\ \E dbOk \in BOOLEAN :
        LET r == generate(req, recomendaciones, dbOk)
        IN  ai' = r.ai /\ recomendaciones' = r.table
    /\ UNCHANGED <<searchVars, factoryVars>>

ChatIa(req) ==
    /\ ai.pc = "idle"
    /\ \E dbOk \in BOOLEAN :
        LET r == chat_ia(req, recomendaciones, dbOk)
        IN  ai' = r.ai /\ recomendaciones' = r.table
    /\ UNCHANGED <<searchVars, factoryVars>>

TextReturn(o) ==
    /\ ai.pc = "text_call"
    /\ \E dbOk \in BOOLEAN :
        LET r == text_return(ai, o, recomendaciones, dbOk)
        IN  ai' = r.ai /\ recomendaciones' = r.table
    /\ UNCHANGED <<searchVars, factoryVars>>

ImageReturn(o) ==
    /\ ai.pc = "image_call"
    /\ \E dbOk \in BOOLEAN :
        LET r == image_return(ai, o, recomendaciones, dbOk)
        IN  ai' = r.ai /\ recomendaciones' = r.table
    /\ UNCHANGED <<searchVars, factoryVars>>

\* The response has been returned: the handler holds nothing any more.
HandlerDone ==
    /\ ai.pc = "done"
    /\ ai' = IdleHandler
    /\ UNCHANGED <<recomendaciones, searchVars, factoryVars>>

\* generate(prompt) called on the TextGenerator the factory last returned
TextGenerate(prompt) ==
    /\ ai.pc = "idle"
    /\ lastFactory.outcome = "ok" /\ lastFactory.instance.cls = "TextGenerator"
    /\ ai' = text_generate(prompt)
    /\ UNCHANGED <<recomendaciones, searchVars, factoryVars>>

TextPostReturn(o) ==
    /\ ai.endpoint = "TextGenerator.generate" /\ ai.pc = "text_call"
    /\ ai' = text_post_return(ai, o)
    /\ UNCHANGED <<recomendaciones, searchVars, factoryVars>>

\* generate(prompt) called on the ImageGenerator the factory last returned
ImageGenerate(prompt) ==
    /\ ai.pc = "idle"
    /\ lastFactory.outcome = "ok" /\ lastFactory.instance.cls = "ImageGenerator"
    /\ ai' = image_generate(prompt)
    /\ UNCHANGED <<recomendaciones, searchVars, factoryVars>>

ImagePostReturn(o) ==
    /\ ai.endpoint = "ImageGenerator.generate" /\ ai.pc = "image_call"
    /\ ai' = image_post_return(ai, o)
    /\ UNCHANGED <<recomendaciones, searchVars, factoryVars>>

\* No search is being answered (the guard of every search action, tested
\* here before the requests are enumerated)
NoSearchPending == lastSearch.resp = NoSearch

NextSearch ==
    \/ \E p \in Catalog : CreateProduct(p)
    \/ \E p \in Catalog : DestroyProduct(p)
    \/ NoSearchPending /\ \E req \in ApiSearchRequests : AdvancedSearch(req)
    \/ NoSearchPending /\ \E req \in GetSearchRequests : SearchProducts(req)
    \/ NoSearchPending /\ \E req \in ContextRequests : ContextSearch(req)
    \/ SearchDone

NextFactory ==
    \/ \E key \in GeneratorKeys : CreateGenerator(key)
    \/ \E key \in GeneratorKeys, cls \in Classes : RegisterGenerator(key, cls)

NextAI ==
    \/ \E req \in ChatRequests : ChatIa(req)
    \/ \E req \in GenerateRequests : Generate(req)
    \/ \E o \in TextOutcomes : TextReturn(o)
    \/ \E o \in ImageOutcomes : ImageReturn(o)
    \/ HandlerDone

NextGenerators ==
    \/ \E key \in {"text", "image"} : CreateGenerator(key)
    \/ \E prompt \in TextPrompts : TextGenerate(prompt)
    \/ \E o \in TextOutcomes : TextPostReturn(o)
    \/ \E prompt \in ImagePrompts : ImageGenerate(prompt)
    \/ \E o \in ImageOutcomes : ImagePostReturn(o)
    \/ HandlerDone

\* The search endpoints over a changing product table
SpecSearch == Init /\ [][NextSearch]_vars

\* The generator factory under registrations and creations
SpecFactory == Init /\ [][NextFactory]_vars

\* The recommendation endpoints, one request at a time, with the factory's
\* registry as the module defines it
SpecAI == Init /\ [][NextAI]_vars

\* The generators called on their own, on instances created by the factory
SpecGenerators == Init /\ [][NextGenerators]_vars

(***************************************************************************)
(* Claims about the search endpoints (under SpecSearch).                   *)
(***************************************************************************)
Req == lastSearch.req
Resp == lastSearch.resp
Accepted == Resp # NoSearch /\ Resp.status = 200
ApiAccepted == Accepted /\ Resp.endpoint = "advanced_search"

\* A price bound is supplied: present in the body of advanced_search, present
\* and not empty in the query string of search_products.
PriceSupplied(v) ==
    IF Resp.endpoint = "advanced_search" THEN v # NoneP ELSE v \notin {NoneStr, ""}

\* The strategy the stated priority selects for the request handled.
PriorityStrategy ==
    IF PriceSupplied(Req.min_price) \/ PriceSupplied(Req.max_price) THEN "price_range"
    ELSE IF Strip(Req.category) # <<>> THEN "category"
    ELSE IF Req.search_type \in AvailableStrategies THEN Req.search_type
    ELSE "contains"

\* C1: every accepted search request is served by exactly one of the five
\* strategies, chosen by priority: price_range if min_price or max_price is
\* supplied, else category if category is non-empty, else the strategy named
\* by search_type.
C1_StrategyPriority ==
    Accepted =>
        /\ Resp.executed
        /\ Resp.strategy_used \in {StrategyName(k) : k \in AvailableStrategies}
        /\ Resp.strategy_used = StrategyName(PriorityStrategy)

\* The products of the store within the supplied bounds of an advanced_search
\* request (and matching the name filter when q is non-empty).
InBounds(p) ==
    /\ Req.min_price # NoneP => p.price >= Req.min_price
    /\ Req.max_price # NoneP => p.price <= Req.max_price

MatchesName(p) == Strip(Req.q) # <<>> => IContains(p.name, Strip(Req.q))

\* C2: an accepted advanced_search request with a min_price and/or a
\* max_price returns exactly the products of the store whose price is within
\* the supplied bounds (inclusive) and that pass the name filter.
C2_PriceBoundsRespected ==
    (ApiAccepted /\ (Req.min_price # NoneP \/ Req.max_price # NoneP)) =>
        /\ \A i \in Range(Resp.results) : InBounds(ProductById(i))
        /\ \A p \in products : (InBounds(p) /\ MatchesName(p)) => p.id \in Range(Resp.results)

\* C3: an advanced_search request with min_price > max_price (both allowed
\* values, >= 0) is rejected with HTTP 400 and no strategy is executed.
C3_InvertedBoundsRejected ==
    (/\ Resp # NoSearch
     /\ Resp.endpoint = "advanced_search"
     /\ Req.min_price # NoneP /\ Req.max_price # NoneP
     /\ Req.min_price >= 0 /\ Req.max_price >= 0
     /\ Req.min_price > Req.max_price) =>
        (Resp.status = 400 /\ ~Resp.executed)

\* C4: when an accepted search request (either endpoint) carries a non-empty
\* category, every returned product's category contains it, ignoring case,
\* whatever the other parameters.
C4_CategoryFilters ==
    (Accepted /\ Strip(Req.category) # <<>>) =>
        \A i \in Range(Resp.results) :
            IContains(ProductById(i).category, Strip(Req.category))

(***************************************************************************)
(* Claims about the recommendation endpoints (under SpecAI).               *)
(***************************************************************************)
Completes == ai.pc # "done" /\ ai'.pc = "done"

\* C5: a request answered with status 'success' and a generated product
\* text (generate or chat_ia) adds exactly one record to the Recomendacion
\* table, and a request that is not answered with success adds none.
C5_EachSuccessRecorded ==
    [][ IF Completes /\ ai'.response.status_field = "success"
        THEN /\ SubSeq(recomendaciones', 1, Len(recomendaciones)) = recomendaciones
             /\ Len(recomendaciones') <= Len(recomendaciones) + 1
             /\ ai'.response.producto # <<>> =>
                    Len(recomendaciones') = Len(recomendaciones) + 1
        ELSE recomendaciones' = recomendaciones ]_vars

Saved == ai.endpoint = "generate" /\ ai.saved # <<>>

\* C6: the record saved by generate holds the validated (trimmed)
\* description of the request, the text returned as 'producto', and as
\* imagen_url the data-URL prefix followed by the returned base64 image when
\* an image was generated, the empty string otherwise; it is the last row of
\* the table.
C6_SavedRecordPairs ==
    Saved =>
        LET rec == ai.saved[1]
            img == ai.response.imagen
        IN  /\ Len(ai.saved) = 1
            /\ recomendaciones # <<>> /\ recomendaciones[Len(recomendaciones)] = rec
            /\ rec.descripcion = Strip(ai.req.descripcion)
            /\ rec.producto_recomendado = ai.response.producto
            /\ rec.producto_recomendado = ai.text_result.content
            /\ (ai.image_result.success => img = ai.image_result.content)
            /\ (~ai.image_result.success => img = NoneText)
            /\ rec.imagen_url = IF img # NoneText /\ img # <<>>
                                THEN <<"data:image/png;base64,">> \o img
                                ELSE <<>>

\* A saved record with an image, from a description that needed trimming.
C6_Witness ==
    /\ Saved
    /\ ai.req.descripcion = <<" ", "a", "b", "c", " ">>
    /\ ai.saved[1].descripcion = <<"a", "b", "c">>
    /\ ai.saved[1].producto_recomendado = <<"Cuaderno", ":", " ", "hojas">>
    /\ ai.saved[1].imagen_url = <<"data:image/png;base64,", "T", "W", "F", "u">>

Count(log, e) == Cardinality({i \in DOMAIN log : log[i] = e})

\* C9: one recommendation request issues at most one text call and at most
\* one image call, the image call only after the text call has returned with
\* success, and the response only after every issued call has returned,
\* as the last thing the handler does.
C9_CallsOnceInOrder ==
    /\ Count(ai.log, "text_call") <= 1
    /\ Count(ai.log, "image_call") <= 1
    /\ \A i \in DOMAIN ai.log :
        /\ ai.log[i] = "image_call" =>
              /\ \E j \in 1..(i - 1) : ai.log[j] = "text_return"
              /\ ai.text_result.success
        /\ ai.log[i] = "text_return" => \E j \in 1..(i - 1) : ai.log[j] = "text_call"
        /\ ai.log[i] = "image_return" => \E j \in 1..(i - 1) : ai.log[j] = "image_call"
        /\ ai.log[i] = "response" =>
              /\ i = Len(ai.log)
              /\ Count(ai.log, "text_return") = Count(ai.log, "text_call")
              /\ Count(ai.log, "image_return") = Count(ai.log, "image_call")
    /\ (ai.response # NoResponse) <=> (Count(ai.log, "response") = 1)
    /\ (ai.pc = "done") <=> (Count(ai.log, "response") = 1)

\* A request that made both calls and answered.
C9_Witness ==
    ai.log = <<"text_call", "text_return", "image_call", "image_return", "response">>

ResultShape(r) ==
    /\ DOMAIN r = {"success", "content", "error"}
    /\ r.success \in BOOLEAN
    /\ r.success <=> (r.error = NoneText)

TextReturned == Count(ai.log, "text_return") = 1
ImageReturned == Count(ai.log, "image_return") = 1

\* C10 (as stated): whatever the outbound call came back with, the result
\* has exactly the keys success, content, error, success is True exactly
\* when error is None, and a failure carries a non-empty error string.
C10_ResultAlwaysNonEmptyError ==
    /\ TextReturned =>
          /\ ResultShape(ai.text_result)
          /\ ~ai.text_result.success => ai.text_result.error # <<>>
    /\ ImageReturned =>
          /\ ResultShape(ai.image_result)
          /\ ~ai.image_result.success => ai.image_result.error # <<>>

\* The error of a failed result: the message of the exception when the call
\* raised, a non-empty text otherwise.
ErrorOf(r, http) ==
    ~r.success =>
        /\ r.error # NoneText
        /\ http.kind = "exception" => r.error = http.msg
        /\ http.kind # "exception" => r.error # <<>>

\* C10 (amended): whatever the outbound call came back with, the result has
\* exactly the keys success, content, error, success is True exactly when
\* error is None, and a failure carries an error string: the message of the
\* exception when the call raised (empty when the exception has no message),
\* non-empty in every other case.
C10_ResultShape ==
    /\ TextReturned =>
          /\ ResultShape(ai.text_result)
          /\ ErrorOf(ai.text_result, ai.text_http)
          /\ ai.text_result.success =>
                (ai.text_http.kind = "response" /\ ai.text_http.status = 200)
    /\ ImageReturned =>
          /\ ResultShape(ai.image_result)
          /\ ErrorOf(ai.image_result, ai.image_http)
          /\ ai.image_result.success <=>
                (ai.image_http.kind = "response" /\ ai.image_http.status = 200)

\* The text call succeeded and the image call raised an exception that has
\* no message: the image result is a failure whose error is the empty string.
C10_Witness ==
    /\ TextReturned /\ ai.text_result.success
    /\ ImageReturned /\ ai.image_http.kind = "exception" /\ ai.image_http.msg = <<>>
    /\ ~ai.image_result.success /\ ai.image_result.error = <<>>

(***************************************************************************)
(* Claims about the generator factory (under SpecFactory).                 *)
(***************************************************************************)
Created == lastFactory.op = "create"
Registered == lastFactory.op = "register"

\* C7 (as stated): create_generator returns a new instance of the class
\* registered under the key, and raises ValueError, leaving the registry as
\* it was, for every key that is not registered.
C7_CreateReturnsRegistered ==
    Created =>
        IF lastFactory.key \in DOMAIN lastFactory.before
        THEN /\ lastFactory.outcome = "ok"
             /\ lastFactory.instance.cls = lastFactory.before[lastFactory.key]
        ELSE /\ lastFactory.outcome = "ValueError"
             /\ generators = lastFactory.before

\* C7 (amended): create_generator returns a new instance of the class
\* registered under the key when that class can be instantiated ('text'
\* gives a TextGenerator and 'image' an ImageGenerator in the registry the
\* module defines), raises TypeError when the registered class is abstract,
\* and raises ValueError for every key that is not registered; it never
\* changes the registry.
C7_CreateReturnsConcrete ==
    Created =>
        /\ generators = lastFactory.before
        /\ IF lastFactory.key \notin DOMAIN lastFactory.before
           THEN lastFactory.outcome = "ValueError" /\ lastFactory.instance.id = 0
           ELSE IF IsAbstract(lastFactory.before[lastFactory.key])
           THEN lastFactory.outcome = "TypeError" /\ lastFactory.instance.id = 0
           ELSE /\ lastFactory.outcome = "ok"
                /\ lastFactory.instance.cls = lastFactory.before[lastFactory.key]
                /\ lastFactory.instance.id = instances /\ instances >= 1
        /\ (lastFactory.before = InitialGenerators /\ lastFactory.key = "text")
              => lastFactory.instance.cls = "TextGenerator"
        /\ (lastFactory.before = InitialGenerators /\ lastFactory.key = "image")
              => lastFactory.instance.cls = "ImageGenerator"

\* A second instance has been created, of a class registered after the
\* module was loaded.
C7_Witness ==
    /\ Created
    /\ lastFactory.outcome = "ok"
    /\ lastFactory.key = "audio"
    /\ lastFactory.instance = [cls |-> "AudioGenerator", id |-> 2]

\* Every key other than the one registered maps to the class it had.
OthersUntouched ==
    /\ DOMAIN generators = DOMAIN lastFactory.before \cup {lastFactory.key}
    /\ \A k \in DOMAIN lastFactory.before \ {lastFactory.key} :
          generators[k] = lastFactory.before[k]

\* C8 (as stated): register_generator with a subclass of AIGenerator makes
\* create_generator(type) return an instance of that class and
\* get_available_types include the type, every other type keeping its class;
\* with a class that is no subclass it raises ValueError and leaves the
\* registry unchanged.
C8_RegisterThenCreate ==
    Registered =>
        IF IsAIGeneratorSubclass(lastFactory.cls)
        THEN /\ lastFactory.outcome = "ok"
             /\ create_generator(generators, lastFactory.key)
                   = [outcome |-> "ok", cls |-> lastFactory.cls]
             /\ lastFactory.key \in get_available_types(generators)
             /\ OthersUntouched
        ELSE lastFactory.outcome = "ValueError" /\ generators = lastFactory.before

\* C8 (amended): register_generator with a subclass of AIGenerator maps the
\* type to that class and makes get_available_types include it, every other
\* type keeping its class; create_generator(type) then returns an instance
\* of that class when the class is concrete and raises TypeError when it is
\* abstract (AIGenerator itself); with a class that is no subclass it raises
\* ValueError and leaves the registry unchanged.
C8_RegisterFrame ==
    Registered =>
        IF IsAIGeneratorSubclass(lastFactory.cls)
        THEN /\ lastFactory.outcome = "ok"
             /\ generators[lastFactory.key] = lastFactory.cls
             /\ create_generator(generators, lastFactory.key)
                   = IF IsAbstract(lastFactory.cls)
                     THEN [outcome |-> "TypeError", cls |-> NoneStr]
                     ELSE [outcome |-> "ok", cls |-> lastFactory.cls]
             /\ lastFactory.key \in get_available_types(generators)
             /\ OthersUntouched
        ELSE lastFactory.outcome = "ValueError" /\ generators = lastFactory.before

\* A new type has been registered beside types that were registered before
\* with classes other than the module's own.
C8_Witness ==
    /\ Registered
    /\ lastFactory.outcome = "ok"
    /\ lastFactory.key = "video" /\ lastFactory.cls = "AudioGenerator"
    /\ "video" \notin DOMAIN lastFactory.before
    /\ "audio" \in DOMAIN lastFactory.before
    /\ lastFactory.before["text"] = "AudioGenerator"

(***************************************************************************)
(* Claims about the generators called on their own (under SpecGenerators). *)
(***************************************************************************)
TextCall == ai.endpoint = "TextGenerator.generate"
ImageCall == ai.endpoint = "ImageGenerator.generate"
Prompt == ai.descripcion

\* C11: TextGenerator.generate called with a prompt of fewer than 3
\* characters after trimming returns success False, content None and the
\* error 'El prompt debe tener al menos 3 caracteres' without any HTTP call;
\* with a prompt of 3 or more trimmed characters it makes exactly one HTTP
\* call, and returns only once that call has come back.
C11_ShortPromptNoCall ==
    TextCall =>
        IF Len(Strip(Prompt)) < 3
        THEN /\ ai.pc = "done"
             /\ ai.text_result.success = FALSE
             /\ ai.text_result.content = NoneText
             /\ ai.text_result.error = <<"El prompt debe tener al menos 3 caracteres">>
             /\ Count(ai.log, "text_call") = 0
             /\ ai.text_http = NoHttp
        ELSE /\ Count(ai.log, "text_call") = 1
             /\ ai.pc = "done" <=> Count(ai.log, "text_return") = 1
             /\ ai.pc = "done" <=> ai.text_http # NoHttp

\* A prompt of four characters, two of them after trimming, has been refused
\* without a call.
C11_Witness ==
    /\ TextCall /\ ai.pc = "done"
    /\ Prompt = <<" ", "a", "b", " ">>
    /\ ai.text_result = TextInvalidResult
    /\ ai.log = <<>>

\* The prompt contains one of the forbidden words, ignoring case.
Forbidden(prompt) ==
    \E i \in DOMAIN prompt : LowerAtom(prompt[i]) \in {"violence", "weapon", "drug"}

\* C12: ImageGenerator.generate called with a prompt that is blank after
\* trimming, or that contains 'violence', 'weapon' or 'drug' ignoring case,
\* returns success False and content None without any HTTP call; with every
\* other prompt it makes exactly one HTTP call.
C12_BadPromptNoCall ==
    ImageCall =>
        IF Strip(Prompt) = <<>> \/ Forbidden(Prompt)
        THEN /\ ai.pc = "done"
             /\ ai.image_result.success = FALSE
             /\ ai.image_result.content = NoneText
             /\ Count(ai.log, "image_call") = 0
             /\ ai.image_http = NoHttp
        ELSE /\ Count(ai.log, "image_call") = 1
             /\ ai.pc = "done" <=> Count(ai.log, "image_return") = 1
             /\ ai.pc = "done" <=> ai.image_http # NoHttp

\* A prompt holding a forbidden word in upper case has been refused without
\* a call.
C12_Witness ==
    /\ ImageCall /\ ai.pc = "done"
    /\ Prompt = <<"WEAPON">>
    /\ ai.image_result = ImageInvalidResult
    /\ ai.log = <<>>

(***************************************************************************)
(* Claims about the strategies themselves (under SpecSearch): responses of *)
(* the two endpoints and of SearchContext called on its own.               *)
(***************************************************************************)
Answered == Resp # NoSearch

\* The query as the strategy receives it: both views trim it first
StrategyQuery == IF Resp.endpoint = "SearchContext" THEN Req.q ELSE Strip(Req.q)

Blank(q) == \A i \in DOMAIN q : q[i] = " "

\* The words of the query, and how many of them a product contains in its
\* name or its category, ignoring case
QueryWords == Range(SplitWords(Lower(StrategyQuery), <<>>))

WordsMatched(p) ==
    Cardinality({w \in QueryWords :
                    Contains(Lower(p.name), w) \/ Contains(Lower(p.category), w)})

\* C13: in the results of the fuzzy strategy a product that matches more of
\* the query's words (in name or category) is never placed after one that
\* matches fewer.
C13_MoreWordsFirst ==
    (Answered /\ Resp.strategy_used = "fuzzy") =>
        \A i, j \in DOMAIN Resp.results :
            i < j => WordsMatched(ProductById(Resp.results[i]))
                        >= WordsMatched(ProductById(Resp.results[j]))

\* The ids of the products of the store that satisfy a test
IdsWhere(Test(_)) == {p.id : p \in {r \in products : Test(r)}}

EqualsQuery(p) ==
    Lower(p.name) = Lower(StrategyQuery) \/ Lower(p.category) = Lower(StrategyQuery)

ContainsQuery(p) ==
    \/ Contains(Lower(p.name), Lower(StrategyQuery))
    \/ Contains(Lower(p.category), Lower(StrategyQuery))

EachOnce(results) == Len(results) = Cardinality(Range(results))

\* C14: for a non-blank query the exact strategy returns exactly the products
\* whose name or category equals the query ignoring case, and the contains
\* strategy exactly the products, each once, whose name or category contains
\* the query ignoring case; for an empty or all-whitespace query the exact,
\* contains and fuzzy strategies return the empty result.
C14_ExactContainsBlank ==
    Answered =>
        /\ (Resp.strategy_used = "exact_match" /\ ~Blank(StrategyQuery)) =>
              (Range(Resp.results) = IdsWhere(EqualsQuery) /\ EachOnce(Resp.results))
        /\ (Resp.strategy_used = "contains" /\ ~Blank(StrategyQuery)) =>
              (Range(Resp.results) = IdsWhere(ContainsQuery) /\ EachOnce(Resp.results))
        /\ (Resp.strategy_used \in {"exact_match", "contains", "fuzzy"}
            /\ Blank(StrategyQuery)) => Resp.results = <<>>

\* The contains strategy has returned the one product of three whose
\* category, and not its name, contains the query in another case.
C14_Witness ==
    /\ Answered
    /\ Resp.strategy_used = "contains"
    /\ Req.q = <<"B", "a">>
    /\ products = Catalog
    /\ Resp.results = <<2>>

\* The request of an endpoint carries no price bound and no category
Plain ==
    /\ Resp.endpoint \in {"advanced_search", "search_products"}
    /\ ~PriceSupplied(Req.min_price) /\ ~PriceSupplied(Req.max_price)
    /\ Req.category = <<>>

\* The response is the one of the contains strategy on the query
ServedByContains ==
    /\ Resp.executed
    /\ Resp.strategy_used = "contains"
    /\ Range(Resp.results) = IF Blank(StrategyQuery) THEN {} ELSE IdsWhere(ContainsQuery)
    /\ EachOnce(Resp.results)

\* C15: contains is the default strategy: a request with no price bounds, no
\* category and no search_type is served by contains; a SearchContext built
\* without a strategy uses contains; search_products given a search_type
\* that is not a registered key answers with contains instead of failing.
C15_ContainsIsDefault ==
    Answered =>
        /\ (Plain /\ Req.search_type = NoneStr) =>
              (Resp.status = 200 /\ ServedByContains)
        /\ (Resp.endpoint = "SearchContext" /\ Req.search_type = NoneStr) =>
              ServedByContains
        /\ (Plain /\ Resp.endpoint = "search_products"
            /\ Req.search_type \notin AvailableStrategies) =>
              (Resp.status = 200 /\ ServedByContains)

\* search_products has answered a request whose search_type is no registered
\* key with the three products that contain the query.
C15_Witness ==
    /\ Answered
    /\ Plain /\ Resp.endpoint = "search_products"
    /\ Req.search_type = "bogus"
    /\ Req.q = <<"B">>
    /\ products = Catalog
    /\ Resp.strategy_used = "contains"
    /\ Resp.results = <<1, 2, 3>>

(***************************************************************************)
(* Further claims about /recommendations/generate/ (under SpecAI).         *)
(***************************************************************************)
\* The text generator has returned a failure to generate
TextFailed(a) ==
    a.endpoint = "generate" /\ a.text_result # NoResult /\ ~a.text_result.success

\* C16: the step of generate in which the text generator returns success
\* False ends the request with HTTP 500, status 'error', producto null and
\* imagen null, with no image call made and no record added to the table.
C16_TextFailureAnswers500 ==
    [][ (ai.pc # "done" /\ TextFailed(ai')) =>
            /\ ai'.pc = "done"
            /\ ai'.response.status = 500
            /\ ai'.response.status_field = "error"
            /\ ai'.response.producto = NoneText
            /\ ai'.response.imagen = NoneText
            /\ Count(ai'.log, "image_call") = 0
            /\ ai'.image_result = NoResult
            /\ ai'.saved = <<>>
            /\ recomendaciones' = recomendaciones ]_vars

\* generate has answered 500 after the provider of the text refused the
\* call, the table holding the record of an earlier request.
C16_Witness ==
    /\ TextFailed(ai) /\ ai.pc = "done"
    /\ ai.text_http.kind = "response" /\ ai.text_http.status = 503
    /\ ai.log = <<"text_call", "text_return", "response">>
    /\ ai.response.status = 500
    /\ Len(recomendaciones) = 1

\* temperature (in tenths) or max_tokens is given and outside its range
OutOfRange(req) ==
    \/ req.temperature # NoneP /\ (req.temperature < 1 \/ req.temperature > 20)
    \/ req.max_tokens # NoneP /\ (req.max_tokens < 10 \/ req.max_tokens > 200)

\* The description is missing, too short once trimmed, or has no letter or digit
BadDescripcion(d) ==
    \/ d = MissingText
    \/ Len(Strip(d)) < 3
    \/ ~\E i \in DOMAIN d : IsAlnum(d[i])

\* generate answers 400 at once: no generator created or called, nothing saved
RejectedAtOnce ==
    /\ ai'.pc = "done"
    /\ ai'.response.status = 400
    /\ ai'.log = <<"response">>
    /\ ai'.created = <<>>
    /\ ai'.text_result = NoResult /\ ai'.image_result = NoResult
    /\ ai'.saved = <<>>
    /\ recomendaciones' = recomendaciones

Arrives == ai.pc = "idle" /\ ai'.endpoint = "generate"

\* C17 (as stated): generate rejects with 400, before any generator is
\* created or called and without saving, every request whose descripcion is
\* missing, has fewer than 3 characters after trimming, is longer than 1000
\* characters or has no alphanumeric character, or whose temperature or
\* max_tokens is out of range.
C17_InvalidRejected ==
    [][ (Arrives /\ (\/ BadDescripcion(ai'.req.descripcion)
                     \/ Len(ai'.req.descripcion) > DescMaxLength
                     \/ OutOfRange(ai'.req))) => RejectedAtOnce ]_vars

\* C17 (amended): the same, the length of the descripcion being measured
\* after trimming for the upper limit as for the lower one: a descripcion
\* longer than 1000 characters only by the whitespace around it is accepted.
C17_InvalidRejectedTrimmed ==
    [][ (Arrives /\ (\/ BadDescripcion(ai'.req.descripcion)
                     \/ Len(Strip(ai'.req.descripcion)) > DescMaxLength
                     \/ OutOfRange(ai'.req))) => RejectedAtOnce ]_vars

\* generate has answered 400 to a descripcion of 1001 letters, the table
\* holding the record of an earlier request.
C17_Witness ==
    /\ ai.endpoint = "generate" /\ ai.pc = "done"
    /\ ai.req.descripcion = Repeat("a", DescMaxLength + 1)
    /\ ai.response.status = 400
    /\ ai.log = <<"response">>
    /\ Len(recomendaciones) = 1

====
